---- MODULE Spec2Model ----
\* A model of invoice_customer_code_fix_migration_20250904.py: the orchestrator
\* main(), its three components and the SQL statements they send, run against
\* a model of the MySQL database they talk to.
EXTENDS Integers, Sequences, FiniteSets, TLC

VARIABLES
    \* ---- the database and its clock (the environment) ----
    table_columns,      \* the columns of invoice_documents in INFORMATION_SCHEMA
    invoice_documents,  \* sequence of rows, row i has id i
    invoice_lines,      \* set of rows [id, invoice_id]
    migration_log,      \* [exists, rows, auto_increment]
    now,                \* CURRENT_TIMESTAMP
    sessions,           \* every session ever opened: [owner, open]
    statements,         \* every statement sent: [sql, session, ok, applied]
    \* ---- the script ----
    pc,                 \* position in main() (or in the calling harness)
    comp,               \* the component being executed, "none" in main()
    cpc,                \* position inside the component
    ret_to,             \* where the caller continues after the component
    connection,         \* the component's local `connection` (0 is None)
    cursor_rows,        \* the result set the cursor holds after execute
    columns,            \* check_...: local `columns`
    problematic_invoices, \* validate_...: local `problematic_invoices`
    retval,             \* the value of the return statement being executed
    structure_ok, data_consistent, log_updated, success, \* locals of main/__main__
    exit_code,          \* the process's exit status, -1 while it runs
    log,                \* the logging output: [level, msg, arg]
    calls,              \* every component invocation: [name, fault, returned, ret, escaped]
    \* ---- history, for stating the properties ----
    runs,               \* invocations made by the harness
    docs0, lines0, cols0, mlog0, \* the database when the run started
    mlog_call,          \* migration_log when update_migration_log was last called
    last_upsert_at,     \* clock reading of the latest upsert the server applied (0: none)
    first_insert        \* [id, description] of the row when it was first inserted

vars == <<table_columns, invoice_documents, invoice_lines, migration_log, now,
          sessions, statements, pc, comp, cpc, ret_to, connection, cursor_rows,
          columns, problematic_invoices, retval, structure_ok, data_consistent,
          log_updated, success, exit_code, log, calls, runs, docs0, lines0,
          cols0, mlog0, mlog_call, last_upsert_at, first_insert>>

dbVars == <<table_columns, invoice_documents, invoice_lines, migration_log>>
histVars == <<docs0, lines0, cols0, mlog0>>
mainVars == <<structure_ok, data_consistent, log_updated, success, exit_code>>

\* ---------------------------------------------------------------- bounds
MaxInvoices == 11       \* rows of invoice_documents when the validator is checked alone
MaxInvoicesMain == 1    \* rows of invoice_documents in a run of main()
MaxNow == 2             \* clock readings
MaxRuns == 2            \* successive runs of the audit logger
MaxTied == 3            \* invoices of a repeated kind, so with equal created_at

\* ------------------------------------------------------- program constants
LIMIT == 10             \* LIMIT 10
MIN_COLUMNS == 2        \* len(columns) >= 2

MIGRATION_NAME == "invoice_customer_code_fix_20250904"
DESCRIPTION == "Fixed customer code saving issue in invoice creation workflow"
NOTES == "Updated invoice creation routes ..."

NULL == "NULL"          \* SQL NULL in a text column
None == 0               \* Python None for `connection`

Range(s) == {s[i] : i \in DOMAIN s}
Min(a, b) == IF a <= b THEN a ELSE b

\* ------------------------------------------------------------ the catalog
\* INFORMATION_SCHEMA.COLUMNS of invoice_documents, in COLUMN_NAME order.
CatalogOrder == <<"customer_code", "customer_name", "id">>
ColumnNames == Range(CatalogOrder)

\* SELECT ... FROM INFORMATION_SCHEMA.COLUMNS WHERE ... AND COLUMN_NAME IN
\* ('customer_code', 'customer_name') ORDER BY COLUMN_NAME
ColumnInFilter(c) == c \in {"customer_code", "customer_name"}

StructureQuery(cols) ==
    SelectSeq(CatalogOrder, LAMBDA c : c \in cols /\ ColumnInFilter(c))

\* A plausible slip: accept as soon as one of the two columns is there.
StructureOK_AtLeastOne(rows) == Len(rows) >= 1

\* if len(columns) >= 2
StructureOK(rows) == Len(rows) >= MIN_COLUMNS

\* ------------------------------------------------- the consistency query
\* The kinds of invoice the environment inserts: customer_code, number of
\* invoice_lines rows, created_at. The first seven are selected by the
\* consistency query, the last two are not.
InvoiceKinds == <<
    [customer_code |-> NULL,   nlines |-> 1, created_at |-> 1],
    [customer_code |-> "",     nlines |-> 2, created_at |-> 2],
    [customer_code |-> NULL,   nlines |-> 1, created_at |-> 3],
    [customer_code |-> "",     nlines |-> 1, created_at |-> 4],
    [customer_code |-> NULL,   nlines |-> 2, created_at |-> 5],
    [customer_code |-> "",     nlines |-> 1, created_at |-> 6],
    [customer_code |-> NULL,   nlines |-> 1, created_at |-> 7],
    [customer_code |-> "C001", nlines |-> 1, created_at |-> 7],
    [customer_code |-> NULL,   nlines |-> 0, created_at |-> 7] >>

\* The kinds the environment inserts more than once, so the created_at
\* values that several invoices share: the oldest, where LIMIT cuts, and one
\* in the middle of the answer.
RepeatedKinds == {1, 4}
Copies(k) == IF k \in RepeatedKinds THEN MaxTied ELSE 1

\* COUNT(il.id) of the group of document d after the LEFT JOIN
LineCount(lines, d) == Cardinality({l \in lines : l.invoice_id = d.id})

\* WHERE id.customer_code IS NULL OR id.customer_code = ''
WhereClause(d) == d.customer_code = NULL \/ d.customer_code = ""

\* HAVING line_count > 0
HavingClause(row) == row.line_count > 0

\* FROM ... LEFT JOIN ... WHERE ... GROUP BY id.id HAVING ...
GroupedRows(docs, lines) ==
    { r \in { [id |-> d.id, customer_code |-> d.customer_code,
               line_count |-> LineCount(lines, d), created_at |-> d.created_at]
              : d \in {x \in Range(docs) : WhereClause(x)} }
        : HavingClause(r) }

\* A plausible slip: oldest first.
OrderBefore_Asc(a, b) == a.created_at <= b.created_at

\* ORDER BY id.created_at DESC: a may come before b
OrderBefore(a, b) == a.created_at >= b.created_at

\* ORDER BY ... LIMIT k: every answer the server may give. MySQL leaves the
\* order of rows with equal created_at, and which of them fall under the
\* limit, to the execution plan: each such answer is in the set.
RECURSIVE OrderLimit(_, _)
OrderLimit(S, k) ==
    IF k = 0 \/ S = {} THEN {<<>>}
    ELSE UNION { {<<x>> \o rest : rest \in OrderLimit(S \ {x}, k - 1)}
                 : x \in {x \in S : \A y \in S : OrderBefore(x, y)} }

\* The answers the server may give to the validator's SELECT.
ConsistencyQuery(docs, lines) == OrderLimit(GroupedRows(docs, lines), LIMIT)

\* ------------------------------------------------------ the migration log
Statuses == {"applied", "failed", "rolled_back"}

RowsNamed(rows, n) == {r \in rows : r.migration_name = n}

\* What an INSERT ... ON DUPLICATE KEY UPDATE that takes the update branch
\* does to the table's AUTO_INCREMENT counter: InnoDB consumes a value, other
\* engines and lock modes do not.
CounterBumps == {0, 1}

\* A plausible slip: INSERT IGNORE, which leaves an existing row as it is.
Upsert_InsertIgnore(ml, t, bump) ==
    IF RowsNamed(ml.rows, MIGRATION_NAME) = {}
    THEN [ml EXCEPT
            !.rows = ml.rows \cup
                {[id |-> ml.auto_increment, migration_name |-> MIGRATION_NAME,
                  description |-> DESCRIPTION, applied_at |-> t,
                  status |-> "applied", notes |-> NOTES]},
            !.auto_increment = ml.auto_increment + 1]
    ELSE [ml EXCEPT !.auto_increment = ml.auto_increment + bump]

\* INSERT INTO migration_log (migration_name, description, notes) VALUES (...)
\* ON DUPLICATE KEY UPDATE applied_at = CURRENT_TIMESTAMP, status = 'applied',
\* notes = VALUES(notes); migration_name is UNIQUE, id is the table's
\* AUTO_INCREMENT counter, applied_at and status take their column defaults
\* on insertion.
Upsert(ml, t, bump) ==
    IF RowsNamed(ml.rows, MIGRATION_NAME) = {}
    THEN [ml EXCEPT
            !.rows = ml.rows \cup
                {[id |-> ml.auto_increment, migration_name |-> MIGRATION_NAME,
                  description |-> DESCRIPTION, applied_at |-> t,
                  status |-> "applied", notes |-> NOTES]},
            !.auto_increment = ml.auto_increment + 1]
    ELSE [ml EXCEPT
            !.rows = { IF r.migration_name = MIGRATION_NAME
                       THEN [r EXCEPT !.applied_at = t, !.status = "applied",
                                      !.notes = NOTES]
                       ELSE r : r \in ml.rows },
            !.auto_increment = ml.auto_increment + bump]

\* CREATE TABLE IF NOT EXISTS migration_log (...)
CreateTableIfNotExists(ml) ==
    IF ml.exists THEN ml ELSE [exists |-> TRUE, rows |-> {}, auto_increment |-> 1]

\* What migration_log may hold before the script runs: no table, an empty
\* table, rows of other migrations, a row left by an earlier run; the
\* AUTO_INCREMENT counter is above every id, by one or (ids consumed by
\* deleted rows or by earlier upserts) by more.
OtherRow == [id |-> 1, migration_name |-> "other_migration", description |-> "d0",
             applied_at |-> 0, status |-> "failed", notes |-> "n0"]
EarlierRow(s) == [id |-> 2, migration_name |-> MIGRATION_NAME,
                  description |-> "earlier description", applied_at |-> 0,
                  status |-> s, notes |-> "earlier notes"]
InitialLogs ==
    {[exists |-> FALSE, rows |-> {}, auto_increment |-> 1],
     [exists |-> TRUE, rows |-> {}, auto_increment |-> 1]}
    \cup {[exists |-> TRUE, rows |-> {OtherRow}, auto_increment |-> n] : n \in {2, 3}}
    \cup {[exists |-> TRUE, rows |-> {EarlierRow(s)}, auto_increment |-> 3] : s \in Statuses}
    \cup {[exists |-> TRUE, rows |-> {OtherRow, EarlierRow(s)}, auto_increment |-> n]
            : s \in Statuses, n \in {3, 4}}

\* =================================================================== state
InitProgram ==
    /\ now = 1
    /\ invoice_documents = <<>> /\ invoice_lines = {}
    /\ sessions = <<>> /\ statements = <<>>
    /\ pc = "setup" /\ comp = "none" /\ cpc = "none" /\ ret_to = "none"
    /\ connection = None /\ cursor_rows = <<>>
    /\ columns = <<>> /\ problematic_invoices = <<>>
    /\ retval = FALSE
    /\ structure_ok = FALSE /\ data_consistent = FALSE /\ log_updated = FALSE
    /\ success = FALSE /\ exit_code = -1
    /\ log = <<>> /\ calls = <<>> /\ runs = 0
    /\ docs0 = <<>> /\ lines0 = {} /\ cols0 = {}
    /\ mlog0 = migration_log /\ mlog_call = migration_log
    /\ last_upsert_at = 0
    /\ first_insert =
         IF RowsNamed(migration_log.rows, MIGRATION_NAME) = {}
         THEN [id |-> 0, description |-> ""]
         ELSE LET r == CHOOSE x \in RowsNamed(migration_log.rows, MIGRATION_NAME) : TRUE
              IN  [id |-> r.id, description |-> r.description]

\* The database main() is run against.
Init ==
    /\ table_columns \in SUBSET ColumnNames
    /\ migration_log \in InitialLogs
    /\ InitProgram

\* -------------------------------------------------------- the environment
KindOf(d, lines) ==
    CHOOSE k \in DOMAIN InvoiceKinds :
        InvoiceKinds[k] = [customer_code |-> d.customer_code,
                           nlines |-> LineCount(lines, d),
                           created_at |-> d.created_at]

\* The invoicing system inserts an invoice and its lines before the script
\* runs. Ids are assigned in insertion order and kinds are inserted in
\* non-decreasing order, at most Copies(k) of kind k: one database for each
\* such multiset of kinds.
InsertInvoice(max) ==
    /\ pc = "setup"
    /\ Len(invoice_documents) < max
    /\ \E k \in DOMAIN InvoiceKinds :
         /\ IF invoice_documents = <<>> THEN TRUE
            ELSE k >= KindOf(invoice_documents[Len(invoice_documents)], invoice_lines)
         /\ Cardinality({i \in DOMAIN invoice_documents :
                            KindOf(invoice_documents[i], invoice_lines) = k}) < Copies(k)
         /\ LET id == Len(invoice_documents) + 1
                base == Cardinality(invoice_lines)
            IN  /\ invoice_documents' = Append(invoice_documents,
                       [id |-> id, customer_code |-> InvoiceKinds[k].customer_code,
                        created_at |-> InvoiceKinds[k].created_at])
                /\ invoice_lines' = invoice_lines \cup
                       {[id |-> base + j, invoice_id |-> id] : j \in 1..InvoiceKinds[k].nlines}
    /\ UNCHANGED <<table_columns, migration_log, now, sessions, statements, pc, comp,
                   cpc, ret_to, connection, cursor_rows, columns, problematic_invoices,
                   retval, mainVars, log, calls, runs, histVars, mlog_call,
                   last_upsert_at, first_insert>>

InsertInvoiceMain == InsertInvoice(MaxInvoicesMain)
InsertInvoiceMany == InsertInvoice(MaxInvoices)

\* The clock advances.
Tick ==
    /\ now < MaxNow
    /\ pc \notin {"exited", "crashed"}
    /\ now' = now + 1
    /\ UNCHANGED <<dbVars, sessions, statements, pc, comp, cpc, ret_to, connection,
                   cursor_rows, columns, problematic_invoices, retval, mainVars, log,
                   calls, runs, histVars, mlog_call, last_upsert_at, first_insert>>

\* ------------------------------------------------- what components share
LogLine(level, msg, arg) == [level |-> level, msg |-> msg, arg |-> arg]

\* How mysql.connector.connect(...) can end; "bad_port" is int() failing on
\* MYSQL_PORT, inside the same try.
ConnectOutcomes == {"ok", "refused", "bad_port"}

\* get_mysql_connection(): the new session, or None on any exception
GetMysqlConnection(outcome, sid) == IF outcome = "ok" THEN sid ELSE None

\* The caller's assignment of the component's result, and the continuation.
ReturnToCaller(c, v, f) ==
    /\ structure_ok' = IF c = "checker" THEN v ELSE structure_ok
    /\ data_consistent' = IF c = "validator" THEN v ELSE data_consistent
    /\ log_updated' = IF c = "logger" THEN v ELSE log_updated
    /\ calls' = [calls EXCEPT ![Len(calls)].returned = TRUE, ![Len(calls)].ret = v,
                              ![Len(calls)].fault = f]
    /\ comp' = "none" /\ cpc' = "none" /\ pc' = ret_to /\ ret_to' = "none"
    /\ connection' = None /\ cursor_rows' = <<>>
    /\ columns' = <<>> /\ problematic_invoices' = <<>> /\ retval' = FALSE

\* A call of component c from position pc, continuing at k.
Call(c, k) ==
    /\ comp = "none"
    /\ comp' = c /\ cpc' = "connect" /\ ret_to' = k
    /\ calls' = Append(calls, [name |-> c, fault |-> "none", returned |-> FALSE,
                               ret |-> FALSE, escaped |-> FALSE])

\* connection = get_mysql_connection(); if not connection: return False
Connect(c) ==
    /\ comp = c /\ cpc = "connect"
    /\ \E outcome \in ConnectOutcomes :
         LET conn == GetMysqlConnection(outcome, Len(sessions) + 1)
         IN  IF conn # None
             THEN /\ sessions' = Append(sessions, [owner |-> c, open |-> TRUE])
                  /\ connection' = conn
                  /\ cpc' = "cursor"
                  /\ UNCHANGED <<pc, comp, ret_to, cursor_rows, columns,
                                 problematic_invoices, retval, structure_ok,
                                 data_consistent, log_updated, log, calls>>
             ELSE /\ log' = Append(log, LogLine("error", "Failed to connect to MySQL", 0))
                  /\ ReturnToCaller(c, FALSE, "connect")
                  /\ UNCHANGED sessions
    /\ UNCHANGED <<dbVars, now, statements, success, exit_code, runs, histVars,
                   mlog_call, last_upsert_at, first_insert>>

\* An exception raised inside the try block at `point`: control goes to the
\* except clause.
Raise(point) ==
    /\ cpc' = "except"
    /\ calls' = [calls EXCEPT ![Len(calls)].fault = point]

\* cursor = connection.cursor(...)
Cursor(c, next) ==
    /\ comp = c /\ cpc = "cursor"
    /\ \E ok \in BOOLEAN :
         IF ok THEN cpc' = next /\ calls' = calls ELSE Raise("cursor")
    /\ UNCHANGED <<dbVars, now, sessions, statements, pc, comp, ret_to, connection,
                   cursor_rows, columns, problematic_invoices, retval, mainVars, log,
                   runs, histVars, mlog_call, last_upsert_at, first_insert>>

\* How cursor.execute(sql) can end: the server applies the statement and
\* the client gets its answer; the statement fails; the server applies (and,
\* autocommit being on, commits) it but the answer is lost, so that execute()
\* raises all the same.
ExecuteOutcomes == {"ok", "failed", "applied_reply_lost"}

\* cursor.execute(sql)
SendStatement(sql, outcome) ==
    statements' = Append(statements,
        [sql |-> sql, session |-> connection, ok |-> outcome = "ok",
         applied |-> outcome # "failed"])

\* except Exception as e: logging.error(...); return False
Except(c, msg) ==
    /\ comp = c /\ cpc = "except"
    /\ log' = Append(log, LogLine("error", msg, 0))
    /\ retval' = FALSE
    /\ cpc' = "finally"
    /\ UNCHANGED <<table_columns, invoice_documents, invoice_lines, now, sessions,
                   statements, pc, comp, ret_to, connection, cursor_rows, columns,
                   problematic_invoices, mainVars, calls, runs, histVars, mlog_call,
                   last_upsert_at, first_insert>>

\* finally: if connection: connection.close(); then the pending return.
\* close() is called outside any try: whether it can raise depends on the
\* driver build (the C-extension connection re-raises interface errors, the
\* pure-Python one swallows them). When it raises, the exception replaces the
\* pending return and leaves the component and main(): the interpreter
\* prints the traceback and ends with status 1, the session was not closed.
Finally(c) ==
    /\ comp = c /\ cpc = "finally"
    /\ \E closed \in BOOLEAN :
         IF closed
         THEN /\ sessions' = IF connection # None
                             THEN [sessions EXCEPT ![connection].open = FALSE]
                             ELSE sessions
              /\ ReturnToCaller(c, retval, calls[Len(calls)].fault)
              /\ UNCHANGED <<exit_code, log>>
         ELSE /\ connection # None
              /\ calls' = [calls EXCEPT ![Len(calls)].escaped = TRUE]
              /\ comp' = "none" /\ cpc' = "none" /\ pc' = "crashed" /\ ret_to' = "none"
              /\ connection' = None /\ cursor_rows' = <<>>
              /\ columns' = <<>> /\ problematic_invoices' = <<>> /\ retval' = FALSE
              /\ exit_code' = 1
              /\ log' = Append(log, LogLine("traceback", "uncaught exception in close()", 0))
              /\ UNCHANGED <<sessions, structure_ok, data_consistent, log_updated>>
    /\ UNCHANGED <<dbVars, now, statements, success, runs,
                   histVars, mlog_call, last_upsert_at, first_insert>>

\* ------------------------- check_invoice_documents_table_structure()
CheckerConnect == Connect("checker")

CheckerCursor == Cursor("checker", "execute")

CheckerExecute ==
    /\ comp = "checker" /\ cpc = "execute"
    /\ \E outcome \in ExecuteOutcomes :
         /\ SendStatement("SELECT_COLUMNS", outcome)
         /\ IF outcome = "ok"
            THEN /\ cursor_rows' = StructureQuery(table_columns)
                 /\ cpc' = "fetch" /\ calls' = calls
            ELSE /\ cursor_rows' = cursor_rows
                 /\ Raise("execute")
    /\ UNCHANGED <<dbVars, now, sessions, pc, comp, ret_to, connection, columns,
                   problematic_invoices, retval, mainVars, log, runs, histVars,
                   mlog_call, last_upsert_at, first_insert>>

\* columns = cursor.fetchall()
CheckerFetch ==
    /\ comp = "checker" /\ cpc = "fetch"
    /\ \E ok \in BOOLEAN :
         IF ok
         THEN columns' = cursor_rows /\ cpc' = "decide" /\ calls' = calls
         ELSE columns' = columns /\ Raise("fetch")
    /\ UNCHANGED <<dbVars, now, sessions, statements, pc, comp, ret_to, connection,
                   cursor_rows, problematic_invoices, retval, mainVars, log, runs,
                   histVars, mlog_call, last_upsert_at, first_insert>>

\* if len(columns) >= 2: log each column, return True; else: error, return False
CheckerDecide ==
    /\ comp = "checker" /\ cpc = "decide"
    /\ IF StructureOK(columns)
       THEN /\ log' = log \o <<LogLine("info", "table has required customer fields", 0)>>
                          \o [i \in 1..Len(columns) |-> LogLine("info", columns[i], 0)]
            /\ retval' = TRUE
       ELSE /\ log' = Append(log, LogLine("error", "table missing customer fields", 0))
            /\ retval' = FALSE
    /\ cpc' = "finally"
    /\ UNCHANGED <<dbVars, now, sessions, statements, pc, comp, ret_to, connection,
                   cursor_rows, columns, problematic_invoices, mainVars, calls, runs,
                   histVars, mlog_call, last_upsert_at, first_insert>>

CheckerExcept ==
    /\ Except("checker", "Error checking invoice_documents table")
    /\ UNCHANGED migration_log

CheckerFinally == Finally("checker")

\* ------------------------- validate_customer_code_data_consistency()
ValidatorConnect == Connect("validator")

ValidatorCursor == Cursor("validator", "execute")

\* A plausible slip for a script called a "fix": the statement repairs the
\* offending invoices instead of only reading them.
ValidatorExecute_Repairs ==
    /\ comp = "validator" /\ cpc = "execute"
    /\ \E outcome \in ExecuteOutcomes :
         /\ SendStatement("SELECT_INVOICES", outcome)
         /\ IF outcome = "ok"
            THEN /\ cursor_rows' \in ConsistencyQuery(invoice_documents, invoice_lines)
                 /\ invoice_documents' =
                        [i \in DOMAIN invoice_documents |->
                            IF WhereClause(invoice_documents[i])
                            THEN [invoice_documents[i] EXCEPT !.customer_code = "UNKNOWN"]
                            ELSE invoice_documents[i]]
                 /\ cpc' = "fetch" /\ calls' = calls
            ELSE /\ cursor_rows' = cursor_rows
                 /\ invoice_documents' = invoice_documents
                 /\ Raise("execute")
    /\ UNCHANGED <<table_columns, invoice_lines, migration_log, now, sessions, pc, comp,
                   ret_to, connection, columns, problematic_invoices, retval, mainVars,
                   log, runs, histVars, mlog_call, last_upsert_at, first_insert>>

ValidatorExecute ==
    /\ comp = "validator" /\ cpc = "execute"
    /\ \E outcome \in ExecuteOutcomes :
         /\ SendStatement("SELECT_INVOICES", outcome)
         /\ IF outcome = "ok"
            THEN /\ cursor_rows' \in ConsistencyQuery(invoice_documents, invoice_lines)
                 /\ cpc' = "fetch" /\ calls' = calls
            ELSE /\ cursor_rows' = cursor_rows
                 /\ Raise("execute")
    /\ invoice_documents' = invoice_documents
    /\ UNCHANGED <<table_columns, invoice_lines, migration_log, now, sessions, pc, comp,
                   ret_to, connection, columns, problematic_invoices, retval, mainVars,
                   log, runs, histVars, mlog_call, last_upsert_at, first_insert>>

\* problematic_invoices = cursor.fetchall()
ValidatorFetch ==
    /\ comp = "validator" /\ cpc = "fetch"
    /\ \E ok \in BOOLEAN :
         IF ok
         THEN problematic_invoices' = cursor_rows /\ cpc' = "decide" /\ calls' = calls
         ELSE problematic_invoices' = problematic_invoices /\ Raise("fetch")
    /\ UNCHANGED <<dbVars, now, sessions, statements, pc, comp, ret_to, connection,
                   cursor_rows, columns, retval, mainVars, log, runs, histVars,
                   mlog_call, last_upsert_at, first_insert>>

\* if problematic_invoices: warn the count and each invoice, return False;
\* else: info, return True
ValidatorDecide ==
    /\ comp = "validator" /\ cpc = "decide"
    /\ IF problematic_invoices # <<>>
       THEN /\ log' = log \o <<LogLine("warning", "Found invoices with missing customer codes",
                                       Len(problematic_invoices))>>
                          \o [i \in 1..Len(problematic_invoices) |->
                                 LogLine("warning", "Invoice", problematic_invoices[i].id)]
            /\ retval' = FALSE
       ELSE /\ log' = Append(log, LogLine("info", "No invoices found with missing customer codes", 0))
            /\ retval' = TRUE
    /\ cpc' = "finally"
    /\ UNCHANGED <<dbVars, now, sessions, statements, pc, comp, ret_to, connection,
                   cursor_rows, columns, problematic_invoices, mainVars, calls, runs,
                   histVars, mlog_call, last_upsert_at, first_insert>>

ValidatorExcept ==
    /\ Except("validator", "Error validating customer code data")
    /\ UNCHANGED migration_log

ValidatorFinally == Finally("validator")

\* ------------------------------------------------ update_migration_log()
LoggerConnect == Connect("logger")

LoggerCursor == Cursor("logger", "create")

\* cursor.execute("CREATE TABLE IF NOT EXISTS migration_log ...")
\* autocommit=True and DDL: committed as soon as the server applies it.
LoggerCreate ==
    /\ comp = "logger" /\ cpc = "create"
    /\ \E outcome \in ExecuteOutcomes :
         /\ SendStatement("CREATE_TABLE", outcome)
         /\ migration_log' = IF outcome # "failed"
                             THEN CreateTableIfNotExists(migration_log)
                             ELSE migration_log
         /\ IF outcome = "ok"
            THEN cpc' = "upsert" /\ calls' = calls
            ELSE Raise("create")
    /\ UNCHANGED <<table_columns, invoice_documents, invoice_lines, now, sessions, pc,
                   comp, ret_to, connection, cursor_rows, columns, problematic_invoices,
                   retval, mainVars, log, runs, histVars, mlog_call, last_upsert_at,
                   first_insert>>

\* cursor.execute("INSERT INTO migration_log ... ON DUPLICATE KEY UPDATE ...")
\* then logging.info(...); return True
LoggerUpsert ==
    /\ comp = "logger" /\ cpc = "upsert"
    /\ \E outcome \in ExecuteOutcomes, bump \in CounterBumps :
         /\ SendStatement("UPSERT", outcome)
         /\ IF outcome # "failed"
            THEN LET ml == Upsert(migration_log, now, bump)
                     mine == CHOOSE r \in RowsNamed(ml.rows, MIGRATION_NAME) : TRUE
                 IN  /\ migration_log' = ml
                     /\ last_upsert_at' = now
                     /\ first_insert' =
                            IF RowsNamed(migration_log.rows, MIGRATION_NAME) = {}
                            THEN [id |-> mine.id, description |-> mine.description]
                            ELSE first_insert
            ELSE /\ migration_log' = [migration_log EXCEPT
                                        !.auto_increment = migration_log.auto_increment + bump]
                 /\ UNCHANGED <<last_upsert_at, first_insert>>
         /\ IF outcome = "ok"
            THEN /\ log' = Append(log, LogLine("info", "Migration log updated successfully", 0))
                 /\ retval' = TRUE
                 /\ cpc' = "finally" /\ calls' = calls
            ELSE /\ UNCHANGED <<log, retval>>
                 /\ Raise("upsert")
    /\ UNCHANGED <<table_columns, invoice_documents, invoice_lines, now, sessions, pc,
                   comp, ret_to, connection, cursor_rows, columns, problematic_invoices,
                   mainVars, runs, histVars, mlog_call>>

\* A plausible slip: both statements in one transaction that the handler
\* rolls back, so a failed upsert undoes the create.
LoggerExcept_RollsBack ==
    /\ Except("logger", "Error updating migration log")
    /\ migration_log' = mlog_call

LoggerExcept ==
    /\ Except("logger", "Error updating migration log")
    /\ UNCHANGED migration_log

LoggerFinally == Finally("logger")

\* ------------------------------------------------------------------ main()
\* The header lines; the database the run starts from is recorded.
MainStart ==
    /\ pc = "setup"
    /\ pc' = "step1"
    /\ log' = Append(log, LogLine("info", "INVOICE CUSTOMER CODE FIX MIGRATION", 0))
    /\ docs0' = invoice_documents /\ lines0' = invoice_lines
    /\ cols0' = table_columns /\ mlog0' = migration_log
    /\ UNCHANGED <<dbVars, now, sessions, statements, comp, cpc, ret_to, connection,
                   cursor_rows, columns, problematic_invoices, retval, mainVars, calls,
                   runs, mlog_call, last_upsert_at, first_insert>>

\* structure_ok = check_invoice_documents_table_structure()
MainStep1 ==
    /\ pc = "step1"
    /\ Call("checker", "check1")
    /\ log' = Append(log, LogLine("info", "Step 1", 0))
    /\ UNCHANGED <<dbVars, now, sessions, statements, pc, connection, cursor_rows,
                   columns, problematic_invoices, retval, mainVars, runs, histVars,
                   mlog_call, last_upsert_at, first_insert>>

\* A plausible slip: the failure is logged but the run goes on.
MainCheckStructure_NoAbort ==
    /\ pc = "check1" /\ comp = "none"
    /\ IF ~structure_ok
       THEN log' = Append(log, LogLine("error", "Migration failed: Table structure issues", 0))
       ELSE log' = log
    /\ pc' = "step2"
    /\ UNCHANGED <<dbVars, now, sessions, statements, comp, cpc, ret_to, connection,
                   cursor_rows, columns, problematic_invoices, retval, mainVars, calls,
                   runs, histVars, mlog_call, last_upsert_at, first_insert>>

\* if not structure_ok: logging.error(...); return False
MainCheckStructure ==
    /\ pc = "check1" /\ comp = "none"
    /\ IF ~structure_ok
       THEN /\ log' = Append(log, LogLine("error", "Migration failed: Table structure issues", 0))
            /\ success' = FALSE
            /\ pc' = "exit"
       ELSE /\ log' = log /\ success' = success
            /\ pc' = "step2"
    /\ UNCHANGED <<dbVars, now, sessions, statements, comp, cpc, ret_to, connection,
                   cursor_rows, columns, problematic_invoices, retval, structure_ok,
                   data_consistent, log_updated, exit_code, calls, runs, histVars,
                   mlog_call, last_upsert_at, first_insert>>

\* data_consistent = validate_customer_code_data_consistency()
MainStep2 ==
    /\ pc = "step2"
    /\ Call("validator", "check2")
    /\ log' = Append(log, LogLine("info", "Step 2", 0))
    /\ UNCHANGED <<dbVars, now, sessions, statements, pc, connection, cursor_rows,
                   columns, problematic_invoices, retval, mainVars, runs, histVars,
                   mlog_call, last_upsert_at, first_insert>>

\* if not data_consistent: logging.warning(...)
MainCheckConsistency ==
    /\ pc = "check2" /\ comp = "none"
    /\ log' = IF ~data_consistent
              THEN Append(log, LogLine("warning", "Found invoices that would benefit", 0))
              ELSE log
    /\ pc' = "step3"
    /\ UNCHANGED <<dbVars, now, sessions, statements, comp, cpc, ret_to, connection,
                   cursor_rows, columns, problematic_invoices, retval, mainVars, calls,
                   runs, histVars, mlog_call, last_upsert_at, first_insert>>

\* log_updated = update_migration_log()
MainStep3 ==
    /\ pc = "step3"
    /\ Call("logger", "check3")
    /\ log' = Append(log, LogLine("info", "Step 3", 0))
    /\ mlog_call' = migration_log
    /\ UNCHANGED <<dbVars, now, sessions, statements, pc, connection, cursor_rows,
                   columns, problematic_invoices, retval, mainVars, runs, histVars,
                   last_upsert_at, first_insert>>

\* A plausible slip: the failure is logged but the run goes on to the summary.
MainCheckLog_NoAbort ==
    /\ pc = "check3" /\ comp = "none"
    /\ IF ~log_updated
       THEN log' = Append(log, LogLine("error", "Failed to update migration log", 0))
       ELSE log' = log
    /\ pc' = "summary"
    /\ UNCHANGED <<dbVars, now, sessions, statements, comp, cpc, ret_to, connection,
                   cursor_rows, columns, problematic_invoices, retval, mainVars, calls,
                   runs, histVars, mlog_call, last_upsert_at, first_insert>>

\* if not log_updated: logging.error(...); return False
MainCheckLog ==
    /\ pc = "check3" /\ comp = "none"
    /\ IF ~log_updated
       THEN /\ log' = Append(log, LogLine("error", "Failed to update migration log", 0))
            /\ success' = FALSE
            /\ pc' = "exit"
       ELSE /\ log' = log /\ success' = success
            /\ pc' = "summary"
    /\ UNCHANGED <<dbVars, now, sessions, statements, comp, cpc, ret_to, connection,
                   cursor_rows, columns, problematic_invoices, retval, structure_ok,
                   data_consistent, log_updated, exit_code, calls, runs, histVars,
                   mlog_call, last_upsert_at, first_insert>>

\* A plausible slip: the summary's consistency flag is what main() returns.
MainSummary_ReturnsConsistency ==
    /\ pc = "summary"
    /\ log' = Append(log, LogLine("info", "MIGRATION SUMMARY",
                                  IF data_consistent THEN 1 ELSE 0))
    /\ success' = data_consistent
    /\ pc' = "exit"
    /\ UNCHANGED <<dbVars, now, sessions, statements, comp, cpc, ret_to, connection,
                   cursor_rows, columns, problematic_invoices, retval, structure_ok,
                   data_consistent, log_updated, exit_code, calls, runs, histVars,
                   mlog_call, last_upsert_at, first_insert>>

\* The summary block (its consistency line depends on data_consistent);
\* return True
MainSummary ==
    /\ pc = "summary"
    /\ log' = Append(log, LogLine("info", "MIGRATION SUMMARY",
                                  IF data_consistent THEN 1 ELSE 0))
    /\ success' = TRUE
    /\ pc' = "exit"
    /\ UNCHANGED <<dbVars, now, sessions, statements, comp, cpc, ret_to, connection,
                   cursor_rows, columns, problematic_invoices, retval, structure_ok,
                   data_consistent, log_updated, exit_code, calls, runs, histVars,
                   mlog_call, last_upsert_at, first_insert>>

\* success = main(); exit(0 if success else 1)
MainExit ==
    /\ pc = "exit"
    /\ exit_code' = IF success THEN 0 ELSE 1
    /\ pc' = "exited"
    /\ UNCHANGED <<dbVars, now, sessions, statements, comp, cpc, ret_to, connection,
                   cursor_rows, columns, problematic_invoices, retval, structure_ok,
                   data_consistent, log_updated, success, log, calls, runs, histVars,
                   mlog_call, last_upsert_at, first_insert>>

Next ==
    \/ InsertInvoiceMain \/ Tick
    \/ MainStart \/ MainStep1 \/ MainCheckStructure \/ MainStep2
    \/ MainCheckConsistency \/ MainStep3 \/ MainCheckLog \/ MainSummary \/ MainExit
    \/ CheckerConnect \/ CheckerCursor \/ CheckerExecute \/ CheckerFetch
    \/ CheckerDecide \/ CheckerExcept \/ CheckerFinally
    \/ ValidatorConnect \/ ValidatorCursor \/ ValidatorExecute \/ ValidatorFetch
    \/ ValidatorDecide \/ ValidatorExcept \/ ValidatorFinally
    \/ LoggerConnect \/ LoggerCursor \/ LoggerCreate \/ LoggerUpsert
    \/ LoggerExcept \/ LoggerFinally

Spec == Init /\ [][Next]_vars

\* ------------------------------------- the components called on their own
\* validate_customer_code_data_consistency() called once on a database of up
\* to MaxInvoices invoices.
InitValidator ==
    /\ table_columns = ColumnNames
    /\ migration_log = [exists |-> FALSE, rows |-> {}, auto_increment |-> 1]
    /\ InitProgram

CallValidator ==
    /\ pc = "setup"
    /\ pc' = "called"
    /\ Call("validator", "returned")
    /\ runs' = runs + 1
    /\ docs0' = invoice_documents /\ lines0' = invoice_lines
    /\ cols0' = table_columns /\ mlog0' = migration_log
    /\ UNCHANGED <<dbVars, now, sessions, statements, connection, cursor_rows, columns,
                   problematic_invoices, retval, mainVars, log, mlog_call,
                   last_upsert_at, first_insert>>

NextValidator ==
    \/ InsertInvoiceMany \/ CallValidator
    \/ ValidatorConnect \/ ValidatorCursor \/ ValidatorExecute \/ ValidatorFetch
    \/ ValidatorDecide \/ ValidatorExcept \/ ValidatorFinally

SpecValidator == InitValidator /\ [][NextValidator]_vars

\* update_migration_log() called up to MaxRuns times in a row, from any
\* initial migration_log.
InitLogger ==
    /\ table_columns = ColumnNames
    /\ migration_log \in InitialLogs
    /\ InitProgram

CallLogger ==
    /\ pc \in {"setup", "returned"}
    /\ runs < MaxRuns
    /\ pc' = "called"
    /\ Call("logger", "returned")
    /\ runs' = runs + 1
    /\ mlog_call' = migration_log
    /\ UNCHANGED <<dbVars, now, sessions, statements, connection, cursor_rows, columns,
                   problematic_invoices, retval, mainVars, log, histVars,
                   last_upsert_at, first_insert>>

NextLogger ==
    \/ CallLogger \/ Tick
    \/ LoggerConnect \/ LoggerCursor \/ LoggerCreate \/ LoggerUpsert
    \/ LoggerExcept \/ LoggerFinally

SpecLogger == InitLogger /\ [][NextLogger]_vars

\* ============================================================== properties
Exited == pc = "exited"
Terminated == pc \in {"exited", "crashed"}
Invoked(c) == \E i \in DOMAIN calls : calls[i].name = c
ReturnedWith(c, v) ==
    \E i \in DOMAIN calls : calls[i].name = c /\ calls[i].returned /\ calls[i].ret = v
OpenSessions == {i \in DOMAIN sessions : sessions[i].open}
MyRows == RowsNamed(migration_log.rows, MIGRATION_NAME)
SqlOwner(sql) ==
    IF sql = "SELECT_COLUMNS" THEN "checker"
    ELSE IF sql = "SELECT_INVOICES" THEN "validator" ELSE "logger"
SentBy(c) == {i \in DOMAIN statements : SqlOwner(statements[i].sql) = c}
RequiredColumns == {"customer_code", "customer_name"}

\* C1: once the Structure Checker has returned false (missing columns, a
\* failed connection or a failed query), the Consistency Validator and the
\* Audit Logger are never invoked, no CREATE TABLE or upsert on migration_log
\* is sent, migration_log is as it was, and the process never ends with
\* status 0: when it ends, it ends with 1.
C1_StructureFailureAborts ==
    ReturnedWith("checker", FALSE) =>
        /\ ~Invoked("validator") /\ ~Invoked("logger")
        /\ \A i \in DOMAIN statements : statements[i].sql \notin {"CREATE_TABLE", "UPSERT"}
        /\ migration_log = mlog0
        /\ exit_code # 0
        /\ Terminated => exit_code = 1

C1_Witness ==
    /\ Exited /\ exit_code = 1
    /\ Len(calls) = 1 /\ calls[1].name = "checker" /\ calls[1].fault = "execute"
    /\ ~calls[1].ret

\* C2: when the process has ended, its exit status is 0 exactly when the
\* Structure Checker returned true and the Audit Logger returned true, and 1
\* otherwise, whatever the Consistency Validator returned and why.
C2_ExitCodeIgnoresConsistency ==
    Terminated =>
        /\ exit_code \in {0, 1}
        /\ exit_code = 0 <=> (ReturnedWith("checker", TRUE) /\ ReturnedWith("logger", TRUE))

C2_Witness ==
    /\ Exited /\ exit_code = 0
    /\ \E i \in DOMAIN calls :
         calls[i].name = "validator" /\ ~calls[i].ret /\ calls[i].fault = "none"

\* C3: after one or more successful runs of update_migration_log(), from any
\* initial migration_log, the table holds exactly one row with this
\* migration's name; its applied_at is the clock reading of the latest
\* successful run, its notes are that run's notes, its status is 'applied';
\* its id and description are those of its first insertion (the earlier
\* row's when the table already had one, else the id assigned and the fixed
\* description of the first run); rows of other migrations are unchanged.
C3_UpsertIdempotent ==
    ReturnedWith("logger", TRUE) =>
        /\ Cardinality(MyRows) = 1
        /\ \A r \in MyRows :
             /\ r.applied_at = last_upsert_at
             /\ r.notes = NOTES
             /\ r.status = "applied"
             /\ r.id = first_insert.id
             /\ r.description = first_insert.description
             /\ IF RowsNamed(mlog0.rows, MIGRATION_NAME) = {}
                THEN r.description = DESCRIPTION /\ \A o \in mlog0.rows : o.id # r.id
                ELSE \E r0 \in mlog0.rows :
                        /\ r0.migration_name = MIGRATION_NAME
                        /\ r.id = r0.id /\ r.description = r0.description
        /\ migration_log.rows \ MyRows = mlog0.rows \ RowsNamed(mlog0.rows, MIGRATION_NAME)

C3_Witness ==
    /\ Len(calls) = 2 /\ calls[1].ret /\ calls[2].ret
    /\ EarlierRow("failed") \in mlog0.rows /\ OtherRow \in mlog0.rows
    /\ last_upsert_at = 2
    /\ \E r \in MyRows : r.applied_at = 2 /\ r.status = "applied"

\* C4: when the connection and the catalog query succeed, the Structure
\* Checker returns true exactly when invoice_documents has both a
\* customer_code and a customer_name column; the code's test on the number of
\* rows fetched agrees with that for every set of columns.
C4_StructureCheckMeansBothColumns ==
    /\ \A i \in DOMAIN calls :
         (calls[i].name = "checker" /\ calls[i].returned /\ calls[i].fault = "none")
            => (calls[i].ret <=> RequiredColumns \subseteq table_columns)
    /\ (comp = "checker" /\ cpc = "decide")
            => (StructureOK(columns) <=> RequiredColumns \subseteq table_columns)

C4_Witness ==
    /\ table_columns = {"customer_code", "id"}
    /\ Len(calls) = 1 /\ calls[1].returned /\ calls[1].fault = "none" /\ ~calls[1].ret

\* C5: with N the number of invoices whose customer_code is null or empty
\* and that have at least one line, a Consistency Validator run whose
\* connection and query succeed returns true exactly when N = 0, and logs one
\* warning line for each of exactly min(N, 10) distinct offending invoices, in
\* descending created_at order, no unreported offender being newer than a
\* reported one; no other invoice is reported.
Offending ==
    {d \in Range(invoice_documents) :
        /\ d.customer_code \in {NULL, ""}
        /\ \E l \in invoice_lines : l.invoice_id = d.id}
Warned == SelectSeq(log, LAMBDA e : e.level = "warning" /\ e.msg = "Invoice")

C5_ValidatorReportsNewestTen ==
    (pc = "returned" /\ calls[1].fault = "none") =>
        /\ data_consistent <=> Cardinality(Offending) = 0
        /\ calls[1].ret = data_consistent
        /\ Len(Warned) = Min(Cardinality(Offending), 10)
        /\ \A i \in DOMAIN Warned : \E d \in Offending : d.id = Warned[i].arg
        /\ \A i, j \in DOMAIN Warned : i # j => Warned[i].arg # Warned[j].arg
        /\ \A i, j \in DOMAIN Warned :
             i < j => invoice_documents[Warned[i].arg].created_at
                        >= invoice_documents[Warned[j].arg].created_at
        /\ \A d \in Offending :
             (\A i \in DOMAIN Warned : Warned[i].arg # d.id)
                => \A i \in DOMAIN Warned :
                      d.created_at <= invoice_documents[Warned[i].arg].created_at

C5_Witness ==
    /\ pc = "returned" /\ calls[1].fault = "none" /\ ~data_consistent
    /\ Cardinality(Offending) = 11
    /\ Len(Warned) = 10
    /\ \E d \in Offending :
         /\ \A i \in DOMAIN Warned : Warned[i].arg # d.id
         /\ d.created_at = invoice_documents[Warned[10].arg].created_at
         /\ d.id < Warned[10].arg
    /\ \E i \in 1..9 :
         /\ invoice_documents[Warned[i].arg].created_at
              = invoice_documents[Warned[i + 1].arg].created_at
         /\ Warned[i].arg < Warned[i + 1].arg

\* C6: every session a component opens is closed when the component is
\* left, on every path: at most one session is open at any time and it is
\* the connection of the component being executed; no session is open while
\* main() itself runs, nor once the process has ended; each statement goes
\* over a session opened by the component that sends it, and no component
\* opens more than one.
C6_SessionsClosed ==
    /\ Cardinality(OpenSessions) <= 1
    /\ \A i \in OpenSessions : sessions[i].owner = comp /\ connection = i
    /\ comp = "none" => OpenSessions = {}
    /\ Terminated => OpenSessions = {}
    /\ \A i \in DOMAIN statements :
         /\ statements[i].session \in DOMAIN sessions
         /\ sessions[statements[i].session].owner = SqlOwner(statements[i].sql)
    /\ \A i, j \in DOMAIN sessions : i # j => sessions[i].owner # sessions[j].owner

\* The process has ended on the exception close() raised in the Consistency
\* Validator's finally clause, after its query had failed: the validator's
\* session is still open.
C6_Witness ==
    /\ pc = "crashed" /\ Len(calls) = 2
    /\ calls[2].name = "validator" /\ calls[2].fault = "execute" /\ calls[2].escaped
    /\ \E i \in OpenSessions : sessions[i].owner = "validator"

\* What does hold: the only session ever left open is that of the call
\* whose close() raised; a component that has returned has closed its
\* session, and no session is open when the process leaves through exit().
SessionsClosedOnReturn ==
    /\ Cardinality(OpenSessions) <= 1
    /\ \A i \in OpenSessions :
         \/ sessions[i].owner = comp /\ connection = i
         \/ /\ pc = "crashed"
            /\ calls[Len(calls)].name = sessions[i].owner /\ calls[Len(calls)].escaped
    /\ \A i \in DOMAIN calls : calls[i].returned =>
            \A k \in OpenSessions : sessions[k].owner # calls[i].name
    /\ (comp = "none" /\ pc # "crashed") => OpenSessions = {}
    /\ Exited => OpenSessions = {}

\* C7: no failure escapes a component as an exception: every call that has
\* ended has returned, a call in which the connection attempt, the cursor
\* creation, a statement or a fetch failed has returned false to the
\* orchestrator, get_mysql_connection() gives None for every failed
\* connection attempt, and a component whose connection attempt failed has
\* opened no session and sent no statement.
C7_NoFailureEscapes ==
    /\ pc # "crashed"
    /\ \A o \in ConnectOutcomes \ {"ok"} : GetMysqlConnection(o, 1) = None
    /\ \A i \in DOMAIN calls :
         /\ ~calls[i].escaped
         /\ (i < Len(calls) \/ comp = "none") => calls[i].returned
         /\ (calls[i].fault # "none" /\ calls[i].returned) =>
                /\ calls[i].ret = FALSE
                /\ calls[i].name = "checker" => ~structure_ok
                /\ calls[i].name = "validator" => ~data_consistent
                /\ calls[i].name = "logger" => ~log_updated
         /\ calls[i].fault = "connect" =>
                /\ SentBy(calls[i].name) = {}
                /\ \A k \in DOMAIN sessions : sessions[k].owner # calls[i].name

\* The Structure Checker's fetch failed, its handler set the result to
\* false, and close() raised in the finally clause: no value was returned and
\* the process has ended on the exception.
C7_Witness ==
    /\ pc = "crashed" /\ Len(calls) = 1
    /\ calls[1].name = "checker" /\ calls[1].fault = "fetch"
    /\ calls[1].escaped /\ ~calls[1].returned
    /\ exit_code = 1

\* What does hold: get_mysql_connection() gives None for every failed
\* attempt, a call that failed and returned has returned false, a failed
\* connection attempt sends no statement, and the only exception that leaves
\* a component is the one close() raises.
FailuresReturnFalseOnReturn ==
    /\ \A o \in ConnectOutcomes \ {"ok"} : GetMysqlConnection(o, 1) = None
    /\ pc = "crashed" => calls[Len(calls)].escaped /\ OpenSessions # {}
    /\ \A i \in DOMAIN calls :
         /\ calls[i].escaped => (i = Len(calls) /\ pc = "crashed" /\ calls[i].fault # "connect")
         /\ (calls[i].fault # "none" /\ calls[i].returned) => calls[i].ret = FALSE
         /\ calls[i].fault = "connect" =>
                /\ SentBy(calls[i].name) = {}
                /\ \A k \in DOMAIN sessions : sessions[k].owner # calls[i].name

\* C8: from the start of a run to its end, whatever the components'
\* outcomes, invoice_documents, invoice_lines and the columns of
\* invoice_documents are as they were when the run started.
C8_InvoiceTablesUntouched ==
    pc # "setup" =>
        /\ invoice_documents = docs0
        /\ invoice_lines = lines0
        /\ table_columns = cols0

C8_Witness ==
    /\ Exited /\ exit_code = 0
    /\ Offending # {} /\ invoice_documents = docs0
    /\ migration_log # mlog0

\* C9: when the create-table statement has succeeded and the upsert has
\* failed (the server did not apply it), the table exists and holds exactly
\* the rows it held before the run, so no row for this migration when there
\* was none (in particular when the statement created the table);
\* update_migration_log() does not return true: when it returns, it returns
\* false; and the process does not end with status 0: it ends with 1.
C9_CreateNotRolledBack ==
    \A i \in DOMAIN calls :
        (/\ calls[i].name = "logger" /\ calls[i].fault = "upsert"
         /\ \E k \in DOMAIN statements :
               statements[k].sql = "UPSERT" /\ ~statements[k].applied) =>
            /\ migration_log.exists
            /\ migration_log.rows = mlog0.rows
            /\ RowsNamed(mlog0.rows, MIGRATION_NAME) = {} => MyRows = {}
            /\ ~calls[i].ret /\ ~log_updated
            /\ exit_code # 0
            /\ Terminated => exit_code = 1

C9_Witness ==
    /\ Exited /\ exit_code = 1
    /\ Len(calls) = 3 /\ calls[3].fault = "upsert" /\ calls[3].returned
    /\ \E k \in DOMAIN statements : statements[k].sql = "UPSERT" /\ ~statements[k].applied
    /\ ~mlog0.exists /\ migration_log.exists /\ migration_log.rows = {}

\* C10: when the process has exited with 0, migration_log holds exactly one
\* row with this migration's name, its status is 'applied' and its
\* applied_at is the clock reading of an upsert this run sent successfully,
\* and the components were invoked once each, in the order Structure Checker,
\* Consistency Validator, Audit Logger.
C10_ExitZeroMeansLogged ==
    (Exited /\ exit_code = 0) =>
        /\ Cardinality(MyRows) = 1
        /\ \A r \in MyRows : r.status = "applied" /\ r.applied_at = last_upsert_at
        /\ last_upsert_at >= 1
        /\ \E i \in DOMAIN statements : statements[i].sql = "UPSERT" /\ statements[i].ok
        /\ [i \in DOMAIN calls |-> calls[i].name] = <<"checker", "validator", "logger">>

C10_Witness ==
    /\ Exited /\ exit_code = 0
    /\ EarlierRow("rolled_back") \in mlog0.rows
    /\ \A r \in MyRows : r.status = "applied" /\ r.applied_at = now

====
